---- MODULE Spec2Model ----
(***************************************************************************)
(* A model of the day-by-day cancer simulation of simpleCancerSim.py: the  *)
(* appointment schedule (ApptSchedule), the sufferer state machine         *)
(* (Sufferer), the population loop (Model.progressToNextDay), the results  *)
(* collector (ModelResults) and the module-level run loop.                 *)
(*                                                                         *)
(* Random draws (np.random.poisson, np.random.uniform) are nondeterministic*)
(* choices: the number of new sufferers of a day, and one boolean outcome  *)
(* of pickRandomTF per progressOneDay call (a call draws at most once).    *)
(* The Gompertz parameters of a sufferer only shape the probabilities of   *)
(* those outcomes and are not part of the modelled state.                  *)
(*                                                                         *)
(* The Gompertz functions of misc.py are modelled apart, with exact        *)
(* arithmetic, for direct calls.                                           *)
(*                                                                         *)
(* Five specifications share the variables:                                *)
(*   Spec         the program: the run loop driving Model.progressToNextDay*)
(*   SchedSpec    one ApptSchedule called directly with arbitrary today    *)
(*   SuffererSpec Sufferer objects advanced directly by an arbitrary caller*)
(*   PairSpec     two ApptSchedule objects given the same today arguments  *)
(*   GompertzSpec the Gompertz functions of misc.py called directly        *)
(***************************************************************************)
EXTENDS Integers, Sequences, FiniteSets

VARIABLES
    SLOTS_PER_DAY,   \* module global, rebound by the run loop
    today,           \* Model.today
    sufferers,       \* Model.sufferers: list of references (indices into suffererObjs)
    suffererObjs,    \* the Sufferer objects created so far, in creation order
    apptSchedule,    \* Model.apptSchedule: the ApptSchedule object
    simResults,      \* the ModelResults object
    calls,           \* history: the getNextApptSlot calls made on apptSchedule
    advanced,        \* history: the progressOneDay calls of the latest progressToNextDay
    liveAtLoop,      \* history: Model.sufferers when the for loop of the latest day began
    apptsSet,        \* history: every appointment set (sufferer, day, appt, stage reported)
    treatments,      \* history: every treatment outcome drawn (sufferer, day, stage)
    prevCalls,       \* history (PairSpec): the getNextApptSlot calls on the previous schedule
    gompertz         \* the inputs and results of direct calls of the Gompertz functions

vars == <<SLOTS_PER_DAY, today, sufferers, suffererObjs, apptSchedule, simResults,
          calls, advanced, liveAtLoop, apptsSet, treatments, prevCalls, gompertz>>

---------------------------------------------------------------------------
(* Bounds of the model *)

\* DAYS_TO_RUN = 365 * 5 in the program; the length of one run here
DAYS_TO_RUN == 4
\* the run loop's range(5, 16) of SLOTS_PER_DAY values, scaled down: range(Start, Stop)
SlotsRangeStart == 1
SlotsRangeStop == 3
\* largest value drawn for numberOfNewCancerStartsToday()
MaxNewPerDay == 2
\* most Sufferer objects created in one run
MaxSufferers == 3
\* SchedSpec: largest today argument and number of direct getNextApptSlot calls
MaxDay == 4
MaxCalls == 5
\* SuffererSpec: number of sufferers created and of direct progressOneDay calls
MaxDirect == 1
MaxAdvances == 4
\* GompertzSpec: the median M is an integer in -MaxMedian..MaxMedian
MaxMedian == 2
\* GompertzSpec: ProbHalfM is 1 - 0.5^L for L = n/d, n in 1..MaxLNum, d in 1..MaxLDen
MaxLNum == 4
MaxLDen == 4
\* GompertzSpec: times x are i * |M| / 2 for i in 0..MaxHalfMedians
MaxHalfMedians == 8

---------------------------------------------------------------------------
(* Program constants *)

STATUS_NOT_TREATED == "NT"
STATUS_TREATMENT_SUCCEEDED == "SC"
STATUS_TREATMENT_FAILED == "FL"

\* Python's None as the value of Sufferer.appt; appointment days are integers >= 1
None == -1

\* no Gompertz function has been called
NoGompertz == [called |-> "none"]

---------------------------------------------------------------------------
(* ApptSchedule *)

\* ApptSchedule.__init__
ApptSchedule_init ==
    [nextApptDay |-> 1, apptsRemainingNextApptDay |-> SLOTS_PER_DAY]

\* mutant: the count of the new day starts one short of the capacity
resetNextApptDayToDay_short(self, day) ==
    [nextApptDay |-> day, apptsRemainingNextApptDay |-> SLOTS_PER_DAY - 1]

resetNextApptDayToDay(self, day) ==
    [nextApptDay |-> day, apptsRemainingNextApptDay |-> SLOTS_PER_DAY]

\* mutant: the day advances one allocation too late (== -1 instead of == 0)
decrementSlotsAvailableNextApptDay_late(self) ==
    LET s == [self EXCEPT !.apptsRemainingNextApptDay = @ - 1]
    IN  IF s.apptsRemainingNextApptDay = -1
        THEN resetNextApptDayToDay(s, s.nextApptDay + 1)
        ELSE s

\* mutant: the count is reset without advancing the day
decrementSlotsAvailableNextApptDay_sameDay(self) ==
    LET s == [self EXCEPT !.apptsRemainingNextApptDay = @ - 1]
    IN  IF s.apptsRemainingNextApptDay = 0
        THEN resetNextApptDayToDay(s, s.nextApptDay)
        ELSE s

decrementSlotsAvailableNextApptDay(self) ==
    LET s == [self EXCEPT !.apptsRemainingNextApptDay = @ - 1]
    IN  IF s.apptsRemainingNextApptDay = 0
        THEN resetNextApptDayToDay(s, s.nextApptDay + 1)
        ELSE s

\* mutant: no reset of a stale schedule
getNextApptSlot_noReset(self, day) ==
    [nextSlotDay |-> self.nextApptDay,
     self |-> decrementSlotsAvailableNextApptDay(self)]

\* mutant: a stale schedule is re-initialised as __init__ does, not moved to today
getNextApptSlot_reinit(self, day) ==
    LET s == IF day > self.nextApptDay THEN ApptSchedule_init ELSE self
    IN  [nextSlotDay |-> s.nextApptDay,
         self |-> decrementSlotsAvailableNextApptDay(s)]

\* mutant: the schedule is moved to today whenever today differs from
\* nextApptDay (!= instead of >), also backwards
getNextApptSlot_resetAny(self, day) ==
    LET s == IF day # self.nextApptDay THEN resetNextApptDayToDay(self, day) ELSE self
    IN  [nextSlotDay |-> s.nextApptDay,
         self |-> decrementSlotsAvailableNextApptDay(s)]

\* getNextApptSlot(today): the returned day and the schedule after the call
getNextApptSlot(self, day) ==
    LET s == IF day > self.nextApptDay THEN resetNextApptDayToDay(self, day) ELSE self
    IN  [nextSlotDay |-> s.nextApptDay,
         self |-> decrementSlotsAvailableNextApptDay(s)]

\* history record of one getNextApptSlot call
CallRecord(before, day, r) ==
    [today |-> day, slot |-> r.nextSlotDay, before |-> before, after |-> r.self]

---------------------------------------------------------------------------
(* ModelResults *)

ModelResults_init ==
    [deaths |-> [d \in 0..DAYS_TO_RUN |-> 0],
     cured |-> [d \in 0..DAYS_TO_RUN |-> 0],
     apptsWaitingDaysTotal |-> 0,
     apptsTotal |-> 0,
     treatmentStageTotalDays |-> 0]

addDeath(self, day) == [self EXCEPT !.deaths[day] = @ + 1]

addCure(self, day) == [self EXCEPT !.cured[day] = @ + 1]

addApptSet(self, daysToWait, stageAtAppt) ==
    [self EXCEPT !.apptsWaitingDaysTotal = @ + daysToWait,
                 !.treatmentStageTotalDays = @ + stageAtAppt,
                 !.apptsTotal = @ + 1]

---------------------------------------------------------------------------
(* Sufferer *)

\* Sufferer.__init__(today, apptSchedule): every sufferer holds the one schedule
Sufferer_init(day) ==
    [dayCancerStarted |-> day, appt |-> None, status |-> STATUS_NOT_TREATED]

cancerStage(self, day) == day - self.dayCancerStarted

\* pickRandomTF(probNoticing), probNoticing the hazard over (stage - 1, stage]
\* (misc.py lines 70-75, which simpleCancerSim.py calls by the name
\* ProbEventBeforeT2GivenNoEventBeforeTime1). The hazard is strictly between 0
\* and 1 while CDF(stage - 1) < 1, and once the CDF saturates the quotient is
\* not a number and the comparison false: either outcome can occur, `draw` is it
isNoticed(cancerStageToday, draw) == draw

\* history record of one isNoticed call: the interval (cancerStageYesterday,
\* cancerStageToday) handed to the hazard calculator as (time1, time2), and
\* the outcome
NoticingRecord(cancerStageToday, outcome) ==
    [time1 |-> cancerStageToday - 1, time2 |-> cancerStageToday,
     noticed |-> outcome]

\* pickRandomTF(1 - CDFGompertz(mortalityParams, stage)): CDF(x) <= 0 for x <= 0,
\* so the probability is >= 1 and the uniform draw in [0, 1) is always <= it
isTreatmentSuccessful(cancerStageToday, draw) ==
    IF cancerStageToday <= 0 THEN TRUE ELSE draw

isStatusSuccess(self) == self.status = STATUS_TREATMENT_SUCCEEDED

isStatusFailed(self) == self.status = STATUS_TREATMENT_FAILED

hasBeenTreated(self) == self.status # STATUS_NOT_TREATED

\* mutant: the noticing branch is taken whenever the sufferer is not yet due,
\* so a waiting sufferer can notice and book again
progressOneDay_rebook(who, self, sched, results, day, draw) ==
    LET cancerStageToday == cancerStage(self, day)
        unchanged == [self |-> self, sched |-> sched, results |-> results,
                      calls |-> <<>>, apptsSet |-> <<>>, treatments |-> <<>>,
                      noticing |-> <<>>]
    IN  IF self.appt = None \/ day < self.appt
        THEN IF isNoticed(cancerStageToday, draw)
             THEN LET r == getNextApptSlot(sched, day)
                      waitingDays == r.nextSlotDay - day
                  IN  [self |-> [self EXCEPT !.appt = r.nextSlotDay],
                       sched |-> r.self,
                       results |-> addApptSet(results, waitingDays,
                                              cancerStageToday + waitingDays),
                       calls |-> <<CallRecord(sched, day, r)>>,
                       apptsSet |-> <<[who |-> who, today |-> day,
                                       appt |-> r.nextSlotDay,
                                       stageAtAppt |-> cancerStageToday + waitingDays]>>,
                       treatments |-> <<>>,
                       noticing |-> <<NoticingRecord(cancerStageToday, TRUE)>>]
             ELSE [unchanged EXCEPT
                      !.noticing = <<NoticingRecord(cancerStageToday, FALSE)>>]
        ELSE LET ok == isTreatmentSuccessful(cancerStageToday, draw)
             IN  [unchanged EXCEPT
                     !.self = [self EXCEPT !.status =
                                  IF ok THEN STATUS_TREATMENT_SUCCEEDED
                                  ELSE STATUS_TREATMENT_FAILED],
                     !.treatments = <<[who |-> who, today |-> day,
                                       stage |-> cancerStageToday, success |-> ok]>>]

\* mutant: the test of the noticing outcome is inverted, so a sufferer whose
\* draw is false books an appointment
progressOneDay_inverted(who, self, sched, results, day, draw) ==
    LET cancerStageToday == cancerStage(self, day)
        unchanged == [self |-> self, sched |-> sched, results |-> results,
                      calls |-> <<>>, apptsSet |-> <<>>, treatments |-> <<>>,
                      noticing |-> <<>>]
    IN  IF self.appt = None
        THEN IF ~isNoticed(cancerStageToday, draw)
             THEN LET r == getNextApptSlot(sched, day)
                      waitingDays == r.nextSlotDay - day
                  IN  [self |-> [self EXCEPT !.appt = r.nextSlotDay],
                       sched |-> r.self,
                       results |-> addApptSet(results, waitingDays,
                                              cancerStageToday + waitingDays),
                       calls |-> <<CallRecord(sched, day, r)>>,
                       apptsSet |-> <<[who |-> who, today |-> day,
                                       appt |-> r.nextSlotDay,
                                       stageAtAppt |-> cancerStageToday + waitingDays]>>,
                       treatments |-> <<>>,
                       noticing |-> <<NoticingRecord(cancerStageToday, FALSE)>>]
             ELSE [unchanged EXCEPT
                      !.noticing = <<NoticingRecord(cancerStageToday, TRUE)>>]
        ELSE IF day < self.appt
        THEN unchanged
        ELSE LET ok == isTreatmentSuccessful(cancerStageToday, draw)
             IN  [unchanged EXCEPT
                     !.self = [self EXCEPT !.status =
                                  IF ok THEN STATUS_TREATMENT_SUCCEEDED
                                  ELSE STATUS_TREATMENT_FAILED],
                     !.treatments = <<[who |-> who, today |-> day,
                                       stage |-> cancerStageToday, success |-> ok]>>]

\* progressOneDay(today, simResults) of sufferer `who`: the sufferer, the shared
\* schedule and the results after the call, and what the call adds to the histories
progressOneDay(who, self, sched, results, day, draw) ==
    LET cancerStageToday == cancerStage(self, day)
        unchanged == [self |-> self, sched |-> sched, results |-> results,
                      calls |-> <<>>, apptsSet |-> <<>>, treatments |-> <<>>,
                      noticing |-> <<>>]
    IN  IF self.appt = None
        THEN IF isNoticed(cancerStageToday, draw)
             THEN LET r == getNextApptSlot(sched, day)
                      waitingDays == r.nextSlotDay - day
                  IN  [self |-> [self EXCEPT !.appt = r.nextSlotDay],
                       sched |-> r.self,
                       results |-> addApptSet(results, waitingDays,
                                              cancerStageToday + waitingDays),
                       calls |-> <<CallRecord(sched, day, r)>>,
                       apptsSet |-> <<[who |-> who, today |-> day,
                                       appt |-> r.nextSlotDay,
                                       stageAtAppt |-> cancerStageToday + waitingDays]>>,
                       treatments |-> <<>>,
                       noticing |-> <<NoticingRecord(cancerStageToday, TRUE)>>]
             ELSE [unchanged EXCEPT
                      !.noticing = <<NoticingRecord(cancerStageToday, FALSE)>>]
        ELSE IF day < self.appt
        THEN unchanged
        ELSE LET ok == isTreatmentSuccessful(cancerStageToday, draw)
             IN  [unchanged EXCEPT
                     !.self = [self EXCEPT !.status =
                                  IF ok THEN STATUS_TREATMENT_SUCCEEDED
                                  ELSE STATUS_TREATMENT_FAILED],
                     !.treatments = <<[who |-> who, today |-> day,
                                       stage |-> cancerStageToday, success |-> ok]>>]

---------------------------------------------------------------------------
(* SchedSpec: one ApptSchedule, called directly *)

SchedInit ==
    /\ SLOTS_PER_DAY \in SlotsRangeStart..(SlotsRangeStop - 1)
    /\ today = 0
    /\ sufferers = <<>>
    /\ suffererObjs = <<>>
    /\ apptSchedule = ApptSchedule_init
    /\ simResults = ModelResults_init
    /\ calls = <<>>
    /\ advanced = <<>>
    /\ liveAtLoop = <<>>
    /\ apptsSet = <<>>
    /\ treatments = <<>>
    /\ prevCalls = <<>>
    /\ gompertz = NoGompertz

SchedCall(day) ==
    /\ Len(calls) < MaxCalls
    /\ LET r == getNextApptSlot(apptSchedule, day)
       IN  /\ apptSchedule' = r.self
           /\ calls' = Append(calls, CallRecord(apptSchedule, day, r))
    /\ UNCHANGED <<SLOTS_PER_DAY, today, sufferers, suffererObjs, simResults,
                   advanced, liveAtLoop, apptsSet, treatments, prevCalls, gompertz>>

SchedNext == \E day \in 1..MaxDay : SchedCall(day)

SchedSpec == SchedInit /\ [][SchedNext]_vars

---------------------------------------------------------------------------
(* Model *)

Range(seq) == {seq[i] : i \in DOMAIN seq}

\* list.remove(x): the first element equal to x is removed
list_remove(list, x) ==
    LET k == CHOOSE i \in DOMAIN list :
                 list[i] = x /\ \A j \in DOMAIN list : list[j] = x => i <= j
    IN  [i \in 1..(Len(list) - 1) |-> IF i < k THEN list[i] ELSE list[i + 1]]

\* createNewSuffers: numberOfNewSufferers new Sufferer objects, appended in order
createNewSuffers(st, numberOfNewSufferers, day) ==
    [st EXCEPT
        !.objs = @ \o [i \in 1..numberOfNewSufferers |-> Sufferer_init(day)],
        !.sufferers = @ \o [i \in 1..numberOfNewSufferers |-> Len(st.objs) + i]]

\* the state the for loop of progressToNextDay works on
LoopState ==
    [sufferers |-> sufferers, objs |-> suffererObjs, sched |-> apptSchedule,
     results |-> simResults, sufferersTreated |-> <<>>,
     calls |-> calls, apptsSet |-> apptsSet, treatments |-> treatments,
     advanced |-> <<>>]

\* mutant: the else of the isStatusFailed test is missing, so a failed treatment
\* is recorded as a death and as a cure
afterProgress_noElse(st, who, day, p) ==
    LET st1 == [st EXCEPT
                   !.objs[who] = p.self,
                   !.sched = p.sched,
                   !.results = p.results,
                   !.calls = @ \o p.calls,
                   !.apptsSet = @ \o p.apptsSet,
                   !.treatments = @ \o p.treatments,
                   !.advanced = Append(@, [who |-> who, today |-> day,
                                           noticing |-> p.noticing])]
    IN  IF hasBeenTreated(p.self)
        THEN [st1 EXCEPT
                 !.sufferersTreated = Append(@, who),
                 !.results = IF isStatusFailed(p.self)
                             THEN addCure(addDeath(st1.results, day), day)
                             ELSE addCure(st1.results, day)]
        ELSE st1

\* the body of the for loop for the element at position i, after progressOneDay
\* returned p: a treated sufferer is noted for removal and reported
afterProgress(st, who, day, p) ==
    LET st1 == [st EXCEPT
                   !.objs[who] = p.self,
                   !.sched = p.sched,
                   !.results = p.results,
                   !.calls = @ \o p.calls,
                   !.apptsSet = @ \o p.apptsSet,
                   !.treatments = @ \o p.treatments,
                   !.advanced = Append(@, [who |-> who, today |-> day,
                                           noticing |-> p.noticing])]
    IN  IF hasBeenTreated(p.self)
        THEN [st1 EXCEPT
                 !.sufferersTreated = Append(@, who),
                 !.results = IF isStatusFailed(p.self)
                             THEN addDeath(st1.results, day)
                             ELSE addCure(st1.results, day)]
        ELSE st1

\* mutant: a treated sufferer is removed from self.sufferers inside the loop, so
\* the list iterator skips the element that follows it
loopBody_removeInLoop(st, i, day, draws) ==
    LET who == st.sufferers[i]
        p == progressOneDay(who, st.objs[who], st.sched, st.results, day, draws[i])
        st1 == afterProgress(st, who, day, p)
    IN  IF hasBeenTreated(p.self)
        THEN [st1 EXCEPT !.sufferers = list_remove(@, who),
                         !.sufferersTreated = st.sufferersTreated]
        ELSE st1

\* one iteration of `for sufferer in self.sufferers`
loopBody(st, i, day, draws) ==
    LET who == st.sufferers[i]
        p == progressOneDay(who, st.objs[who], st.sched, st.results, day, draws[i])
    IN  afterProgress(st, who, day, p)

\* the for loop: Python's list iterator walks self.sufferers by position
RECURSIVE forSufferers(_, _, _, _)
forSufferers(st, i, day, draws) ==
    IF i > Len(st.sufferers)
    THEN st
    ELSE forSufferers(loopBody(st, i, day, draws), i + 1, day, draws)

\* mutant: only the first treated sufferer is removed
removeTreated_firstOnly(list, sufferersTreated) ==
    IF sufferersTreated = <<>>
    THEN list
    ELSE list_remove(list, Head(sufferersTreated))

\* `for sufferer in sufferersTreated: self.sufferers.remove(sufferer)`
RECURSIVE removeTreated(_, _)
removeTreated(list, sufferersTreated) ==
    IF sufferersTreated = <<>>
    THEN list
    ELSE removeTreated(list_remove(list, Head(sufferersTreated)),
                       Tail(sufferersTreated))

\* Model.progressToNextDay, with the day's random draws given:
\* numberOfNewCancerSuffers new sufferers, and draws[i] the outcome of the
\* pickRandomTF call (if any) of the sufferer at position i
progressToNextDay(numberOfNewCancerSuffers, draws) ==
    LET day == today + 1
        created == createNewSuffers(LoopState, numberOfNewCancerSuffers, day)
        done == forSufferers(created, 1, day, draws)
    IN  /\ today' = day
        /\ liveAtLoop' = created.sufferers
        /\ suffererObjs' = done.objs
        /\ apptSchedule' = done.sched
        /\ simResults' = done.results
        /\ calls' = done.calls
        /\ apptsSet' = done.apptsSet
        /\ treatments' = done.treatments
        /\ advanced' = done.advanced
        /\ sufferers' = removeTreated(done.sufferers, done.sufferersTreated)
        /\ UNCHANGED <<SLOTS_PER_DAY, prevCalls, gompertz>>

---------------------------------------------------------------------------
(* Spec: the run loop *)

\* the first iteration of `for SLOTS_PER_DAY in reversed(range(5, 16))`, after
\* ModelResults() and Model(simResults)
Init ==
    /\ SLOTS_PER_DAY = SlotsRangeStop - 1
    /\ today = 0
    /\ sufferers = <<>>
    /\ suffererObjs = <<>>
    /\ apptSchedule = ApptSchedule_init
    /\ simResults = ModelResults_init
    /\ calls = <<>>
    /\ advanced = <<>>
    /\ liveAtLoop = <<>>
    /\ apptsSet = <<>>
    /\ treatments = <<>>
    /\ prevCalls = <<>>
    /\ gompertz = NoGompertz

\* one iteration of `for day in range(DAYS_TO_RUN)`
Day ==
    /\ today < DAYS_TO_RUN
    /\ \E n \in 0..MaxNewPerDay :
          /\ Len(suffererObjs) + n <= MaxSufferers
          /\ \E draws \in [1..(Len(sufferers) + n) -> BOOLEAN] :
                progressToNextDay(n, draws)

\* the next iteration of the outer loop: SLOTS_PER_DAY is rebound and a new
\* ModelResults and Model (with a new ApptSchedule) are made
NextRun ==
    /\ today = DAYS_TO_RUN
    /\ SLOTS_PER_DAY > SlotsRangeStart
    /\ SLOTS_PER_DAY' = SLOTS_PER_DAY - 1
    /\ today' = 0
    /\ sufferers' = <<>>
    /\ suffererObjs' = <<>>
    /\ apptSchedule' = [nextApptDay |-> 1,
                        apptsRemainingNextApptDay |-> SLOTS_PER_DAY']
    /\ simResults' = ModelResults_init
    /\ calls' = <<>>
    /\ advanced' = <<>>
    /\ liveAtLoop' = <<>>
    /\ apptsSet' = <<>>
    /\ treatments' = <<>>
    /\ UNCHANGED <<prevCalls, gompertz>>

Next == Day \/ NextRun

Spec == Init /\ [][Next]_vars

---------------------------------------------------------------------------
(* SuffererSpec: Sufferer objects created and advanced directly by a caller. *)
(* The caller's dates never go back (`today` is the latest date it passed);  *)
(* it may call progressOneDay on any sufferer it created, treated or not.    *)

SuffererInit ==
    /\ SLOTS_PER_DAY \in SlotsRangeStart..(SlotsRangeStop - 1)
    /\ today = 1
    /\ sufferers = <<>>
    /\ suffererObjs = <<>>
    /\ apptSchedule = ApptSchedule_init
    /\ simResults = ModelResults_init
    /\ calls = <<>>
    /\ advanced = <<>>
    /\ liveAtLoop = <<>>
    /\ apptsSet = <<>>
    /\ treatments = <<>>
    /\ prevCalls = <<>>
    /\ gompertz = NoGompertz

\* Sufferer(day, apptSchedule)
DirectNew(day) ==
    /\ Len(suffererObjs) < MaxDirect
    /\ today' = day
    /\ suffererObjs' = Append(suffererObjs, Sufferer_init(day))
    /\ UNCHANGED <<SLOTS_PER_DAY, sufferers, apptSchedule, simResults,
                   calls, advanced, liveAtLoop, apptsSet, treatments, prevCalls, gompertz>>

\* sufferer.progressOneDay(day, simResults)
DirectProgressOneDay(who, day, draw) ==
    /\ Len(advanced) < MaxAdvances
    /\ today' = day
    /\ LET p == progressOneDay(who, suffererObjs[who], apptSchedule, simResults,
                               day, draw)
       IN  /\ suffererObjs' = [suffererObjs EXCEPT ![who] = p.self]
           /\ apptSchedule' = p.sched
           /\ simResults' = p.results
           /\ calls' = calls \o p.calls
           /\ apptsSet' = apptsSet \o p.apptsSet
           /\ treatments' = treatments \o p.treatments
           /\ advanced' = Append(advanced, [who |-> who, today |-> day,
                                             noticing |-> p.noticing])
    /\ UNCHANGED <<SLOTS_PER_DAY, sufferers, liveAtLoop, prevCalls, gompertz>>

SuffererNext ==
    \/ \E day \in today..MaxDay : DirectNew(day)
    \/ \E who \in DOMAIN suffererObjs : \E day \in today..MaxDay : \E draw \in BOOLEAN :
          DirectProgressOneDay(who, day, draw)

SuffererSpec == SuffererInit /\ [][SuffererNext]_vars

---------------------------------------------------------------------------
(* Claims about the appointment schedule (checked under SchedSpec) *)

CallIdx == 1..Len(calls)

\* the today arguments of the calls made so far are non-decreasing
NonDecreasingTodays ==
    \A i \in CallIdx : \A j \in CallIdx : i < j => calls[i].today <= calls[j].today

\* the calls that returned day d
CallsReturning(d) == {i \in CallIdx : calls[i].slot = d}

\* C1: capacity bound. For calls with non-decreasing today arguments on a
\* schedule of capacity SLOTS_PER_DAY >= 1, at most SLOTS_PER_DAY calls return
\* the same day.
C1_CapacityBound ==
    NonDecreasingTodays =>
        \A i \in CallIdx : Cardinality(CallsReturning(calls[i].slot)) <= SLOTS_PER_DAY

\* C1 witness: a day is full (SLOTS_PER_DAY calls returned it) and a later call
\* that asked for that day or an earlier one was pushed to a later day.
C1_Witness ==
    /\ NonDecreasingTodays
    /\ \E i \in CallIdx : \E j \in CallIdx :
          /\ i < j
          /\ Cardinality(CallsReturning(calls[i].slot)) = SLOTS_PER_DAY
          /\ calls[j].today <= calls[i].slot
          /\ calls[j].slot > calls[i].slot

\* C2: every call returns a day >= its today argument, also when the schedule
\* is stale (today > nextApptDay) at the call.
C2_SlotNotInPast ==
    \A i \in CallIdx : calls[i].slot >= calls[i].today

\* C2 witness: a call after the first found the schedule stale, and another
\* call found it ahead of today.
C2_Witness ==
    /\ \E i \in CallIdx : i > 1 /\ calls[i].today > calls[i].before.nextApptDay
    /\ \E i \in CallIdx : calls[i].today < calls[i].before.nextApptDay

\* C3: FIFO. For calls with non-decreasing today arguments the returned days
\* are non-decreasing.
C3_Fifo ==
    NonDecreasingTodays =>
        \A i \in CallIdx : \A j \in CallIdx : i < j => calls[i].slot <= calls[j].slot

\* C3 witness: non-decreasing todays, with the schedule running ahead of today
\* (a full day pushed a call to a later day) and a later call that found it stale.
C3_Witness ==
    /\ NonDecreasingTodays
    /\ \E i \in CallIdx : \E j \in CallIdx :
          /\ i < j
          /\ calls[i].slot > calls[i].today
          /\ calls[j].today > calls[j].before.nextApptDay

\* C4: after any call apptsRemainingNextApptDay is in 1..SLOTS_PER_DAY.
C4_RemainingInRange ==
    /\ apptSchedule.apptsRemainingNextApptDay \in 1..SLOTS_PER_DAY
    /\ \A i \in CallIdx : calls[i].after.apptsRemainingNextApptDay \in 1..SLOTS_PER_DAY

\* C4 witness: a call took the last slot of a day, so the schedule advanced the
\* day and reset the count; and a call left a day partly filled.
C4_Witness ==
    /\ \E i \in CallIdx :
          /\ calls[i].after.nextApptDay = calls[i].slot + 1
          /\ calls[i].after.apptsRemainingNextApptDay = SLOTS_PER_DAY
    /\ \E i \in CallIdx :
          /\ calls[i].after.nextApptDay = calls[i].slot
          /\ calls[i].after.apptsRemainingNextApptDay < SLOTS_PER_DAY

\* call i finds the schedule with nothing allocated for its today or later
IdleAt(i) == \A j \in CallIdx : j < i => calls[j].slot < calls[i].today

\* calls i .. i+k all have the today argument of call i
SameTodayRun(i, k) == \A m \in i..(i + k) : calls[m].today = calls[i].today

---------------------------------------------------------------------------
(* Claims about the sufferers and the population loop *)

Created == DOMAIN suffererObjs

\* the appointments set for sufferer `who`
ApptsSetFor(who) == {k \in DOMAIN apptsSet : apptsSet[k].who = who}

\* the progressOneDay calls of the latest day made on sufferer `who`
AdvancesOf(who) == {k \in DOMAIN advanced : advanced[k].who = who}

\* C6: the appointment day is set at most once. It is None until the sufferer
\* notices, and from then on it keeps the day it was given at that moment.
C6_ApptSetOnce ==
    \A who \in Created :
        /\ Cardinality(ApptsSetFor(who)) <= 1
        /\ (suffererObjs[who].appt = None) <=> (ApptsSetFor(who) = {})
        /\ \A k \in ApptsSetFor(who) : suffererObjs[who].appt = apptsSet[k].appt

\* C6 witness: a sufferer that got its appointment on an earlier day, for a day
\* after that one, was advanced again today; another one, created on an earlier
\* day, was advanced today and has none.
C6_Witness ==
    /\ \E k \in DOMAIN apptsSet :
          /\ apptsSet[k].today < today
          /\ apptsSet[k].appt > apptsSet[k].today
          /\ AdvancesOf(apptsSet[k].who) # {}
    /\ \E who \in Created :
          /\ suffererObjs[who].appt = None
          /\ suffererObjs[who].dayCancerStarted < today
          /\ AdvancesOf(who) # {}

\* C7: advancing a resolved sufferer is a no-op: a progressOneDay call on a
\* sufferer whose status is already treatment-succeeded or treatment-failed
\* leaves its status unchanged.
C7_ResolvedIsNoOp ==
    [][\A who \in Created :
          hasBeenTreated(suffererObjs[who]) =>
              suffererObjs'[who].status = suffererObjs[who].status]_vars

\* C8: a sufferer resolves on its appointment day: the day of every treatment
\* is the sufferer's appointment day, and the stage at treatment is the stage
\* at appointment reported to the results when the appointment was set.
C8_ResolvesOnApptDay ==
    \A t \in DOMAIN treatments :
        /\ treatments[t].today = suffererObjs[treatments[t].who].appt
        /\ \A k \in ApptsSetFor(treatments[t].who) :
              treatments[t].stage = apptsSet[k].stageAtAppt

\* C9: in each progressToNextDay call every sufferer in the live list after
\* the day's arrivals were added, those created that day included, is advanced
\* by progressOneDay exactly once, with today the new value of the day counter.
C9_AdvancedExactlyOnce ==
    /\ \A who \in Created :
          suffererObjs[who].dayCancerStarted = today => who \in Range(liveAtLoop)
    /\ Range(sufferers) \subseteq Range(liveAtLoop)
    /\ \A who \in Range(liveAtLoop) : Cardinality(AdvancesOf(who)) = 1
    /\ \A k \in DOMAIN advanced :
          advanced[k].today = today /\ advanced[k].who \in Range(liveAtLoop)

\* C9 witness: the latest day advanced a sufferer created that day and two
\* older ones, the first of them treated that day.
C9_Witness ==
    /\ Len(liveAtLoop) >= 3
    /\ suffererObjs[liveAtLoop[Len(liveAtLoop)]].dayCancerStarted = today
    /\ suffererObjs[liveAtLoop[2]].dayCancerStarted < today
    /\ hasBeenTreated(suffererObjs[liveAtLoop[1]])

\* C10: after each progressToNextDay call the live list holds exactly the
\* sufferers whose status is not-treated, each once; a sufferer that became
\* terminal was removed and is not advanced on any later day.
C10_LiveAreUntreated ==
    /\ Range(sufferers) = {who \in Created : ~hasBeenTreated(suffererObjs[who])}
    /\ \A i \in DOMAIN sufferers : \A j \in DOMAIN sufferers :
          sufferers[i] = sufferers[j] => i = j
    /\ \A t \in DOMAIN treatments : \A k \in DOMAIN advanced :
          treatments[t].who = advanced[k].who =>
              treatments[t].today = advanced[k].today

\* C10 witness: two sufferers were treated and removed on an earlier day while
\* another stayed live, and a later day advanced the one that stayed.
C10_Witness ==
    /\ \E t \in DOMAIN treatments : \E u \in DOMAIN treatments :
          /\ t # u
          /\ treatments[t].today < today
          /\ treatments[u].today = treatments[t].today
    /\ sufferers # <<>>
    /\ advanced # <<>>

\* the isNoticed calls recorded in `advanced` for sufferer `who` whose draw was true
NoticedTrue(who) ==
    {k \in AdvancesOf(who) :
        advanced[k].noticing # <<>> /\ advanced[k].noticing[1].noticed}

\* C11: no spontaneous appointment or treatment. A sufferer whose noticing draw
\* was false in every progressOneDay call so far has no appointment, has made
\* no request to the schedule, and has status not-treated.
C11_LatentStaysLatent ==
    \A who \in Created :
        NoticedTrue(who) = {} =>
            /\ suffererObjs[who].appt = None
            /\ suffererObjs[who].status = STATUS_NOT_TREATED
            /\ ApptsSetFor(who) = {}
            /\ \A t \in DOMAIN treatments : treatments[t].who # who
            /\ Len(calls) = Len(apptsSet)

\* C11 witness: a sufferer was advanced MaxAdvances times, on more than one day,
\* every noticing draw was false, and it is still latent.
C11_Witness ==
    \E who \in Created :
        /\ NoticedTrue(who) = {}
        /\ Cardinality(AdvancesOf(who)) = MaxAdvances
        /\ \E k \in AdvancesOf(who) : advanced[k].today > suffererObjs[who].dayCancerStarted + 1
        /\ suffererObjs[who].appt = None

\* C17: every hazard computation of the simulation has time2 > time1 >= 0: for
\* every isNoticed call of progressOneDay the interval start (stage - 1) is >= 0,
\* also on the day a sufferer is created and first advanced.
C17_HazardIntervalValid ==
    \A k \in DOMAIN advanced :
        advanced[k].noticing # <<>> =>
            /\ advanced[k].noticing[1].time2 > advanced[k].noticing[1].time1
            /\ advanced[k].noticing[1].time1 >= 0

\* C18: nextApptDay never decreases. For every getNextApptSlot call, whatever
\* its today argument, nextApptDay after the call is >= nextApptDay before it,
\* and each call starts from the schedule the previous call left.
C18_NextApptDayMonotone ==
    /\ \A i \in CallIdx : calls[i].after.nextApptDay >= calls[i].before.nextApptDay
    /\ \A i \in CallIdx : i > 1 => calls[i].before = calls[i-1].after
    /\ calls # <<>> => apptSchedule = calls[Len(calls)].after

\* C18 witness: one call arrived with today behind nextApptDay and left it
\* where it was, another moved it forward by several days (a stale schedule),
\* another moved it by one (a day filled up).
C18_Witness ==
    /\ \E i \in CallIdx :
          /\ calls[i].today < calls[i].before.nextApptDay
          /\ calls[i].after.nextApptDay = calls[i].before.nextApptDay
    /\ \E i \in CallIdx : calls[i].after.nextApptDay > calls[i].before.nextApptDay + 1
    /\ \E i \in CallIdx :
          /\ calls[i].today <= calls[i].before.nextApptDay
          /\ calls[i].after.nextApptDay = calls[i].before.nextApptDay + 1

\* np.sum of a results array over its indices 0..n
RECURSIVE np_sum(_, _)
np_sum(a, n) == IF n < 0 THEN 0 ELSE a[n] + np_sum(a, n - 1)

\* the treatment outcomes drawn on day d with the given success value
TreatedOn(d, ok) ==
    {t \in DOMAIN treatments : treatments[t].today = d /\ treatments[t].success = ok}

\* C19: conservation of individuals. After every progressToNextDay call the
\* sufferers created so far are the live ones plus the recorded deaths plus the
\* recorded cures; each resolved sufferer is recorded exactly once, as a death
\* or a cure, in the entry of the day it resolved, a day in 1..DAYS_TO_RUN.
C19_Conservation ==
    /\ Len(suffererObjs) = Len(sufferers) + np_sum(simResults.deaths, DAYS_TO_RUN)
                                          + np_sum(simResults.cured, DAYS_TO_RUN)
    /\ \A d \in 0..DAYS_TO_RUN :
          /\ simResults.deaths[d] = Cardinality(TreatedOn(d, FALSE))
          /\ simResults.cured[d] = Cardinality(TreatedOn(d, TRUE))
    /\ \A t \in DOMAIN treatments : treatments[t].today \in 1..DAYS_TO_RUN
    /\ \A who \in Created :
          /\ Cardinality({t \in DOMAIN treatments : treatments[t].who = who})
                = IF hasBeenTreated(suffererObjs[who]) THEN 1 ELSE 0
          /\ hasBeenTreated(suffererObjs[who]) <=> who \notin Range(sufferers)
          /\ \A t \in DOMAIN treatments :
                treatments[t].who = who =>
                    treatments[t].success = isStatusSuccess(suffererObjs[who])

\* C19 witness: at the end of a run a death and a cure are recorded on
\* different days and a sufferer is still live.
C19_Witness ==
    /\ today = DAYS_TO_RUN
    /\ sufferers # <<>>
    /\ \E d1, d2 \in 1..DAYS_TO_RUN :
          d1 # d2 /\ simResults.deaths[d1] > 0 /\ simResults.cured[d2] > 0

---------------------------------------------------------------------------
(* PairSpec: two ApptSchedule objects made one after the other, as the run *)
(* loop makes them. The capacity is the module global SLOTS_PER_DAY, so two*)
(* schedules differ in capacity only when the global is rebound between    *)
(* them. The first schedule receives calls with non-decreasing today; the  *)
(* global is then rebound to a capacity that is not larger, a new schedule *)
(* is made, and it receives the same today arguments in the same order.    *)

PairInit ==
    /\ SLOTS_PER_DAY \in SlotsRangeStart..(SlotsRangeStop - 1)
    /\ today = 1
    /\ sufferers = <<>>
    /\ suffererObjs = <<>>
    /\ apptSchedule = ApptSchedule_init
    /\ simResults = ModelResults_init
    /\ calls = <<>>
    /\ advanced = <<>>
    /\ liveAtLoop = <<>>
    /\ apptsSet = <<>>
    /\ treatments = <<>>
    /\ prevCalls = <<>>
    /\ gompertz = NoGompertz

\* a getNextApptSlot(day) call on the first schedule, day not before the last one
PairCall(day) ==
    /\ prevCalls = <<>>
    /\ Len(calls) < MaxCalls
    /\ day >= today
    /\ today' = day
    /\ LET r == getNextApptSlot(apptSchedule, day)
       IN  /\ apptSchedule' = r.self
           /\ calls' = Append(calls, CallRecord(apptSchedule, day, r))
    /\ UNCHANGED <<SLOTS_PER_DAY, sufferers, suffererObjs, simResults,
                   advanced, liveAtLoop, apptsSet, treatments, prevCalls, gompertz>>

\* SLOTS_PER_DAY is rebound to slots and a new ApptSchedule is made
PairRebind(slots) ==
    /\ prevCalls = <<>>
    /\ calls # <<>>
    /\ slots <= SLOTS_PER_DAY
    /\ SLOTS_PER_DAY' = slots
    /\ today' = 1
    /\ apptSchedule' = [nextApptDay |-> 1,
                        apptsRemainingNextApptDay |-> SLOTS_PER_DAY']
    /\ prevCalls' = calls
    /\ calls' = <<>>
    /\ UNCHANGED <<sufferers, suffererObjs, simResults, advanced, liveAtLoop,
                   apptsSet, treatments, gompertz>>

\* the new schedule receives the next today argument the first one received
PairReplay ==
    /\ Len(calls) < Len(prevCalls)
    /\ LET day == prevCalls[Len(calls) + 1].today
           r == getNextApptSlot(apptSchedule, day)
       IN  /\ today' = day
           /\ apptSchedule' = r.self
           /\ calls' = Append(calls, CallRecord(apptSchedule, day, r))
    /\ UNCHANGED <<SLOTS_PER_DAY, sufferers, suffererObjs, simResults,
                   advanced, liveAtLoop, apptsSet, treatments, prevCalls, gompertz>>

PairNext ==
    \/ \E day \in 1..MaxDay : PairCall(day)
    \/ \E slots \in SlotsRangeStart..(SlotsRangeStop - 1) : PairRebind(slots)
    \/ PairReplay

PairSpec == PairInit /\ [][PairNext]_vars

\* C20: capacity monotonicity. Of two schedules that receive the same
\* getNextApptSlot(today) calls with non-decreasing today, the one with the
\* higher capacity (the first, prevCalls) returns for every call a day <= the
\* day the one with the lower or equal capacity (the second, calls) returns.
C20_CapacityMonotone ==
    \A i \in CallIdx :
        i <= Len(prevCalls) =>
            /\ calls[i].today = prevCalls[i].today
            /\ prevCalls[i].slot <= calls[i].slot

\* C20 witness: the second schedule has a strictly lower capacity, has received
\* all the calls of the first, at least three on more than one day, and some
\* call got a strictly later day and another the same day.
C20_Witness ==
    /\ Len(prevCalls) >= 3
    /\ Len(calls) = Len(prevCalls)
    /\ SLOTS_PER_DAY < prevCalls[1].before.apptsRemainingNextApptDay
    /\ prevCalls[Len(prevCalls)].today > prevCalls[1].today
    /\ \E i \in CallIdx : prevCalls[i].slot < calls[i].slot
    /\ \E i \in CallIdx : prevCalls[i].slot = calls[i].slot

---------------------------------------------------------------------------
(* Gompertz functions of misc.py.                                          *)
(*                                                                         *)
(* Numbers are exact. A rational is a pair <<n, d>> in lowest terms, d > 0.*)
(* Logarithms and exponentials stay symbolic:                              *)
(*   ProbHalfM  is [halvings |-> L]: the probability 1 - 0.5^L, so that    *)
(*              np.log(1 - ProbHalfM) / np.log(0.5) is L;                  *)
(*   b          is [kind |-> "num", K, M]: the number 2 ln(K) / M;         *)
(*   eta        is [kind |-> "num", halvings |-> e]: the number e ln(2);   *)
(*   a CDF or a probability is [kind |-> "num", halvings |-> h]: the       *)
(*              number 1 - 0.5^h, or [kind |-> "one"]: exactly 1.0.        *)
(* numpy float arithmetic raises no exception: a division by zero gives    *)
(* inf or nan, [kind |-> "nonfinite"], and every operation on it gives     *)
(* a nonfinite value again.                                                 *)
(* Rounding is modelled in two places only. 1.0 - np.exp(-h) is exactly 1.0*)
(* from h = SaturationHalvings halvings on. And where the exact K is 1, the*)
(* float K is 1.0 or a few ulps from it (it is 1.0 for sure when L is an   *)
(* integer, every step being exact): the parameter `rounding` chooses.     *)

\* 1 - 2^(-53) is the largest double below 1.0; 1 - 2^(-54) rounds to 1.0
SaturationHalvings == 54

RECURSIVE GCD(_, _)
GCD(a, b) == IF b = 0 THEN a ELSE GCD(b, a % b)

Abs(n) == IF n < 0 THEN -n ELSE n

\* the rational n / d (d # 0) in lowest terms with a positive denominator
Rat(n, d) ==
    LET g == GCD(Abs(n), Abs(d))
    IN  IF d < 0 THEN <<(-n) \div g, (-d) \div g>> ELSE <<n \div g, d \div g>>

RatAdd(p, q) == Rat(p[1] * q[2] + q[1] * p[2], p[2] * q[2])
RatSub(p, q) == Rat(p[1] * q[2] - q[1] * p[2], p[2] * q[2])
RatMul(p, q) == Rat(p[1] * q[1], p[2] * q[2])
\* p / q for q # 0
RatDiv(p, q) == Rat(p[1] * q[2], p[2] * q[1])
RatLess(p, q) == p[1] * q[2] < q[1] * p[2]

\* p to the integer power j (p # 0 when j < 0)
RECURSIVE RatPow(_, _)
RatPow(p, j) ==
    IF j = 0 THEN <<1, 1>>
    ELSE IF j < 0 THEN RatPow(RatDiv(<<1, 1>>, p), -j)
    ELSE RatMul(p, RatPow(p, j - 1))

\* np.sqrt of a rational that is a perfect square
np_sqrt(p) ==
    <<CHOOSE r \in 0..p[1] : r * r = p[1], CHOOSE r \in 0..p[2] : r * r = p[2]>>

Nonfinite == [kind |-> "nonfinite"]
One == [kind |-> "one"]

\* the float 1.0 - np.exp(-h ln 2)
OneMinusHalfTo(h) ==
    IF RatLess(h, <<SaturationHalvings, 1>>)
    THEN [kind |-> "num", halvings |-> h]
    ELSE One

\* K of gompertzParams for L = np.log(1.0 - ProbHalfM) / np.log(0.5), exactly
gompertzParams_K(L) ==
    LET four == <<4, 1>>
        one == <<1, 1>>
        radicand == RatAdd(RatSub(RatMul(four, RatPow(L, 2)), RatMul(four, L)), one)
    IN  RatDiv(RatAdd(one, np_sqrt(radicand)), RatMul(<<2, 1>>, L))

\* the float K can differ from the exact K only where a step is inexact
RoundingPossible(ProbHalfM, rounding) ==
    rounding = "inexact" =>
        /\ gompertzParams_K(ProbHalfM.halvings) = <<1, 1>>
        /\ ProbHalfM.halvings[2] # 1

\* gompertzParams(M, ProbHalfM): the dictionary with keys b and eta. There is
\* no test of the arguments and no raise.
gompertzParams(M, ProbHalfM, rounding) ==
    LET L == ProbHalfM.halvings
        K == gompertzParams_K(L)
        KisOne == K = <<1, 1>>
        \* b = (2.0 * np.log(K)) / M
        b == IF M = 0 THEN Nonfinite
             ELSE IF KisOne /\ rounding = "inexact"
             THEN [kind |-> "rounding", M |-> M]
             ELSE [kind |-> "num", K |-> K, M |-> M]
        \* eta = np.log(1.0 - ProbHalfM) / (1 - np.exp(b*M/2.0)), and
        \* np.exp(b*M/2.0) is K; with M = 0 it is the exp of inf * 0 or of nan
        eta == IF M = 0 THEN Nonfinite
               ELSE IF KisOne
               THEN IF rounding = "inexact"
                    THEN [kind |-> "rounding", L |-> L]
                    ELSE Nonfinite
               ELSE [kind |-> "num", halvings |-> RatDiv(L, RatSub(K, <<1, 1>>))]
    IN  [b |-> b, eta |-> eta]

\* CDFGompertz(gParams, x) = 1.0 - np.exp(-eta * (np.exp(b*x) - 1)) for a
\* rational x that is a whole number j of half medians: np.exp(b*x) is K^j, and
\* the CDF is 1 - 0.5^h for h = (eta / ln 2) * (K^j - 1). Where K is a few
\* ulps from 1, eta * (np.exp(b*x) - 1) is L * j * ln 2 up to rounding.
CDFGompertz(gParams, x) ==
    LET b == gParams.b
        eta == gParams.eta
    IN  IF b.kind = "nonfinite" \/ eta.kind = "nonfinite"
        THEN Nonfinite
        ELSE LET j == RatDiv(RatMul(<<2, 1>>, x), <<b.M, 1>>)
                 h == IF b.kind = "rounding"
                      THEN RatMul(eta.L, j)
                      ELSE RatMul(eta.halvings,
                                  RatSub(RatPow(b.K, j[1]), <<1, 1>>))
             IN  OneMinusHalfTo(h)

\* ProbDieBeforeT2GivenSurviveUntilTime1(time1, time2, gParams) =
\* (F(time2) - F(time1)) / (1 - F(time1)): no test of the arguments, no test
\* of the divisor. With F = 1 - 0.5^h the quotient is 1 - 0.5^(h2 - h1).
ProbDieBeforeT2GivenSurviveUntilTime1(time1, time2, gParams) ==
    LET F1 == CDFGompertz(gParams, time1)
        F2 == CDFGompertz(gParams, time2)
    IN  IF F1.kind = "nonfinite" \/ F2.kind = "nonfinite" THEN Nonfinite
        ELSE IF F1.kind = "one" THEN Nonfinite
        ELSE IF F2.kind = "one" THEN One
        ELSE OneMinusHalfTo(RatSub(F2.halvings, F1.halvings))

---------------------------------------------------------------------------
(* GompertzSpec: the Gompertz functions called directly by a caller. *)

GompertzInit ==
    /\ SLOTS_PER_DAY = SlotsRangeStop - 1
    /\ today = 0
    /\ sufferers = <<>>
    /\ suffererObjs = <<>>
    /\ apptSchedule = ApptSchedule_init
    /\ simResults = ModelResults_init
    /\ calls = <<>>
    /\ advanced = <<>>
    /\ liveAtLoop = <<>>
    /\ apptsSet = <<>>
    /\ treatments = <<>>
    /\ prevCalls = <<>>
    /\ gompertz = NoGompertz

GompertzUnchanged ==
    UNCHANGED <<SLOTS_PER_DAY, today, sufferers, suffererObjs, apptSchedule,
                simResults, calls, advanced, liveAtLoop, apptsSet, treatments,
                prevCalls>>

\* the time of i half medians of a numpy float M
HalfMedians(M, i) == IF M = 0 THEN Rat(i, 2) ELSE Rat(i * Abs(M), 2)

\* a call gompertzParams(M, ProbHalfM)
Call_gompertzParams(M, ProbHalfM, rounding) ==
    /\ RoundingPossible(ProbHalfM, rounding)
    /\ gompertz' = [called |-> "gompertzParams",
                    M |-> M, ProbHalfM |-> ProbHalfM,
                    time1 |-> <<0, 1>>, time2 |-> <<0, 1>>,
                    gParams |-> gompertzParams(M, ProbHalfM, rounding),
                    raised |-> FALSE,
                    returned |-> gompertzParams(M, ProbHalfM, rounding)]
    /\ GompertzUnchanged

\* a call CDFGompertz(gParams, x) on the parameters derived last
Call_CDFGompertz(x) ==
    /\ gompertz.called # "none"
    /\ gompertz' = [gompertz EXCEPT
                       !.called = "CDFGompertz",
                       !.time1 = <<0, 1>>,
                       !.time2 = x,
                       !.raised = FALSE,
                       !.returned = CDFGompertz(gompertz.gParams, x)]
    /\ GompertzUnchanged

\* a call ProbDieBeforeT2GivenSurviveUntilTime1(time1, time2, gParams)
Call_ProbDieBeforeT2GivenSurviveUntilTime1(time1, time2) ==
    /\ gompertz.called # "none"
    /\ gompertz' = [gompertz EXCEPT
                       !.called = "ProbDieBeforeT2GivenSurviveUntilTime1",
                       !.time1 = time1,
                       !.time2 = time2,
                       !.raised = FALSE,
                       !.returned = ProbDieBeforeT2GivenSurviveUntilTime1(
                                        time1, time2, gompertz.gParams)]
    /\ GompertzUnchanged

GompertzNext ==
    \/ \E M \in (-MaxMedian)..MaxMedian : \E n \in 1..MaxLNum : \E d \in 1..MaxLDen :
       \E rounding \in {"exact", "inexact"} :
          /\ gompertz.called = "none"
          /\ Call_gompertzParams(M, [halvings |-> Rat(n, d)], rounding)
    \/ \E i \in 0..MaxHalfMedians :
          Call_CDFGompertz(HalfMedians(gompertz.M, i))
    \/ \E i1, i2 \in 0..MaxHalfMedians :
          Call_ProbDieBeforeT2GivenSurviveUntilTime1(HalfMedians(gompertz.M, i1),
                                                    HalfMedians(gompertz.M, i2))

GompertzSpec == GompertzInit /\ [][GompertzNext]_vars

\* C12: gompertzParams fails fast, constructing no parameters, whenever
\* ProbHalfM >= 0.5 (L >= 1) or M <= 0, instead of returning a pair.
C12_InvalidParamsRejected ==
    (/\ gompertz.called = "gompertzParams"
     /\ \/ ~RatLess(gompertz.ProbHalfM.halvings, <<1, 1>>)
        \/ gompertz.M <= 0)
    => gompertz.raised

\* C13: when CDF(time1) is >= 1 the hazard calculator, called with
\* time2 > time1, returns probability 1 as a defined result, not the quotient
\* by 1 - CDF(time1) = 0.
C13_SaturatedHazardIsOne ==
    (/\ gompertz.called = "ProbDieBeforeT2GivenSurviveUntilTime1"
     /\ RatLess(gompertz.time1, gompertz.time2)
     /\ CDFGompertz(gompertz.gParams, gompertz.time1) = One)
    => gompertz.returned = One

\* C14: the hazard calculator rejects a call with time2 <= time1 rather than
\* evaluating it to a probability.
C14_EmptyIntervalRejected ==
    (/\ gompertz.called = "ProbDieBeforeT2GivenSurviveUntilTime1"
     /\ ~RatLess(gompertz.time1, gompertz.time2))
    => gompertz.raised

\* C16: calibration round trip. For M > 0 and 0 < ProbHalfM < 0.5 (0 < L < 1)
\* the parameters of gompertzParams(M, ProbHalfM) give CDF(M) = 0.5 (one
\* halving) and CDF(M/2) = ProbHalfM (L halvings).
C16_CalibrationRoundTrip ==
    (/\ gompertz.called = "CDFGompertz"
     /\ gompertz.M > 0
     /\ RatLess(gompertz.ProbHalfM.halvings, <<1, 1>>))
    => /\ gompertz.time2 = <<gompertz.M, 1>> =>
              gompertz.returned = [kind |-> "num", halvings |-> <<1, 1>>]
       /\ gompertz.time2 = Rat(gompertz.M, 2) =>
              gompertz.returned = [kind |-> "num",
                                   halvings |-> gompertz.ProbHalfM.halvings]

====
